---------------------------- MODULE Spec2Model ----------------------------
(***************************************************************************)
(* A model of superodds: helper.py (odds math, counterpart resolver) and   *)
(* oddsapi.py (the OddsAPI instance: output_game_odds, output_odds_csv,    *)
(* compute_arbitrage_opps, get_all_positive_ev_arbitrage_opps,             *)
(* get_all_odds, output_historical_events_across_timestamps).             *)
(*                                                                         *)
(* Representation of Python values:                                        *)
(*  - a number read from the feed is [kind, neg, mag]: kind "int" or       *)
(*    "float" (or "absent" when the JSON key is missing), mag in tenths,   *)
(*    neg the sign bit (floats keep a signed zero);                        *)
(*  - the text of a number inside a label is [sign, whole, frac]: sign is  *)
(*    "", "-" or "+", frac = -1 when the text has no '.', else the digit   *)
(*    after the '.';                                                       *)
(*  - a label string  name ++ (" " if sp) ++ number text  is               *)
(*    [name, sp, num]; names hold no blank and no digit, hence two label   *)
(*    strings are equal iff their records are;                             *)
(*  - probabilities are exact rationals <<n, d>> in lowest terms, d > 0    *)
(*    (IEEE rounding of the Python floats is not modelled).                *)
(***************************************************************************)
EXTENDS Integers, Sequences, FiniteSets, TLC

VARIABLES
    arg,                       \* inputs of the pure function under check
    res,                       \* its successive results
    snapshot,                  \* provider: the raw odds response of each event
    odds,                      \* caller: the odds_dict get_odds returned, per event
    latest_ran_home_team,      \* self.latest_ran_home_team
    latest_ran_away_team,      \* self.latest_ran_away_team
    latest_ran_event_id,       \* self.latest_ran_event_id
    latest_ran_commence_time,  \* self.latest_ran_commence_time
    latest_ran_timestamp,      \* self.latest_ran_timestamp
    latest_ran_df,             \* self.latest_ran_df
    agg_dict_out,              \* the agg_dict of the last output_odds_csv that returned
    result_df,                 \* self.result_df
    last_call,                 \* the last public call and how it ended
    latest_historical_ran_time, \* self.latest_historical_ran_time, in hours
    datetime_var,              \* the sweep: the timestamp it stands at, in hours
    historcal_df,              \* the sweep: the table of the last get_all_odds
    csv_files,                 \* the sweep: the timestamps a CSV was written for
    sweep_pc                   \* the sweep: "idle", "loop", "done" or "raised"

vars == <<arg, res, snapshot, odds, latest_ran_home_team, latest_ran_away_team,
          latest_ran_event_id, latest_ran_commence_time, latest_ran_timestamp,
          latest_ran_df, agg_dict_out, result_df, last_call,
          latest_historical_ran_time, datetime_var, historcal_df, csv_files, sweep_pc>>

sweepVars == <<latest_historical_ran_time, datetime_var, historcal_df, csv_files, sweep_pc>>

pipeVars == <<snapshot, odds, latest_ran_home_team, latest_ran_away_team,
              latest_ran_event_id, latest_ran_commence_time, latest_ran_timestamp,
              latest_ran_df, agg_dict_out, result_df, last_call, sweepVars>>

-----------------------------------------------------------------------------
(* Bounds *)

\* largest whole part of a point in a label
MaxWhole == 3

\* most outcomes one bookmaker lists in one market
MaxOutcomes == 4

\* most outcomes of a market that is shown beside another market or bookmaker
MaxPaired == 2

\* most outcomes the second bookmaker lists
MaxSecond == 2

-----------------------------------------------------------------------------
(* Python numbers and their text *)

Abs(n) == IF n < 0 THEN -n ELSE n

Blank == [sign |-> "", whole |-> -1, frac |-> -1]

NoPoint == [kind |-> "absent", neg |-> FALSE, mag |-> 0]

PyInt(k) == [kind |-> "int", neg |-> k < 0, mag |-> 10 * Abs(k)]

PyFloat(isNeg, tenths) == [kind |-> "float", neg |-> isNeg, mag |-> tenths]

\* str(x) of an int or a float (repr: shortest text, always with a fraction for a float)
PyStr(x) ==
    IF x.kind = "absent" THEN Blank
    ELSE [sign  |-> IF x.neg THEN "-" ELSE "",
          whole |-> x.mag \div 10,
          frac  |-> IF x.kind = "int" THEN -1 ELSE x.mag % 10]

\* abs(x)
PyAbs(x) == [x EXCEPT !.neg = FALSE]

\* float(text) for a text of the shape [+-]?\d+(\.\d)?
ParseFloat(t) ==
    PyFloat(t.sign = "-", 10 * t.whole + (IF t.frac = -1 THEN 0 ELSE t.frac))

\* -x
PyNeg(x) == [x EXCEPT !.neg = ~x.neg]

-----------------------------------------------------------------------------
(* Label strings *)

Str(n, t) == [name |-> n, sp |-> TRUE, num |-> t]

EmptyStr == [name |-> "", sp |-> FALSE, num |-> Blank]

\* str.lower() on the names of the model
Lower(n) ==
    CASE n = "Over"  -> "over"
      [] n = "Under" -> "under"
      [] OTHER       -> n

\* results of a call: a value, None, or an exception
Ret(v) == [status |-> "ok", value |-> v]

RetNone == [status |-> "None", value |-> EmptyStr]

Raise(e) == [status |-> e, value |-> EmptyStr]

-----------------------------------------------------------------------------
(* helper.get_counter_event_name *)

\* re.match(r"(Over|Under) (\d+(\.\d+)?)", event_type, re.IGNORECASE)
MatchOverUnder(event_type) ==
    /\ Lower(event_type.name) \in {"over", "under"}
    /\ event_type.sp
    /\ event_type.num # Blank
    /\ event_type.num.sign = ""

\* re.match(r"(.+?)(?:\s+([+-]?\d+(?:\.\d+)?))?$", event_type): any non-empty text
MatchSpread(event_type) == event_type # EmptyStr

\* group(2) of the spread pattern is None
SpreadGroup2IsNone(event_type) ==
    \/ event_type.num = Blank
    \/ event_type.name = ""

get_counter_event_name(event_type, home_team, away_team) ==
    IF event_type = Str("No", Blank) THEN Ret(Str("Yes", Blank))
    ELSE IF event_type = Str("Yes", Blank) THEN Ret(Str("No", Blank))
    ELSE IF event_type = Str(home_team, Blank) THEN Ret(Str(away_team, Blank))
    ELSE IF event_type = Str(away_team, Blank) THEN Ret(Str(home_team, Blank))
    ELSE IF MatchOverUnder(event_type)
    THEN Ret(Str(IF Lower(event_type.name) = "over" THEN "Under" ELSE "Over",
                 event_type.num))
    ELSE IF MatchSpread(event_type)
    THEN IF SpreadGroup2IsNone(event_type)
         THEN Raise("TypeError")         \* float(None)
         ELSE Ret(Str(IF event_type.name = home_team THEN away_team ELSE home_team,
                      PyStr(PyNeg(ParseFloat(event_type.num)))))
    ELSE RetNone

-----------------------------------------------------------------------------
(* Exact rationals standing for the Python floats *)

RECURSIVE GCD(_, _)
GCD(a, b) == IF b = 0 THEN a ELSE GCD(b, a % b)

\* float('nan')
NaN == <<0, 0>>

IsNaN(q) == q[2] = 0

Q(n, d) ==
    LET g == GCD(Abs(n), Abs(d))
        s == IF d < 0 THEN -1 ELSE 1
    IN  IF d = 0 THEN NaN ELSE <<s * (n \div g), s * (d \div g)>>

QInt(k) == <<k, 1>>

QAdd(x, y) == IF IsNaN(x) \/ IsNaN(y) THEN NaN ELSE Q(x[1] * y[2] + y[1] * x[2], x[2] * y[2])

QSub(x, y) == IF IsNaN(x) \/ IsNaN(y) THEN NaN ELSE Q(x[1] * y[2] - y[1] * x[2], x[2] * y[2])

QMul(x, y) == IF IsNaN(x) \/ IsNaN(y) THEN NaN ELSE Q(x[1] * y[1], x[2] * y[2])

\* x / y for y # 0
QDiv(x, y) == IF IsNaN(x) \/ IsNaN(y) THEN NaN ELSE Q(x[1] * y[2], x[2] * y[1])

\* x < y; every comparison with nan is False
QLess(x, y) == ~IsNaN(x) /\ ~IsNaN(y) /\ x[1] * y[2] < y[1] * x[2]

QLeq(x, y) == ~IsNaN(x) /\ ~IsNaN(y) /\ x[1] * y[2] <= y[1] * x[2]

\* a rounding that goes down instead of up
QCeilAsFloor(x) == x[1] \div x[2]

\* math.ceil(x)
QCeil(x) == -((-x[1]) \div x[2])

-----------------------------------------------------------------------------
(* helper.py: odds math.  A price is an integer, or nan as <<0, 0>> where   *)
(* pandas hands a missing cell to the function; prices are passed as        *)
(* rationals.                                                               *)

compute_vig_implied_probability(o) ==
    IF IsNaN(o) THEN NaN
    ELSE IF QLess(o, QInt(0))
    THEN QDiv(QInt(Abs(o[1])), QAdd(QInt(Abs(o[1])), QInt(100)))
    ELSE QDiv(QInt(100), QAdd(QInt(100), o))

compute_no_vig_probabilities(odds_team_1, odds_team_2) ==
    LET team_1_vig_incl_prob == compute_vig_implied_probability(QInt(odds_team_1))
        team_2_vig_incl_prob == compute_vig_implied_probability(QInt(odds_team_2))
    IN  <<QDiv(team_1_vig_incl_prob, QAdd(team_1_vig_incl_prob, team_2_vig_incl_prob)),
          QDiv(team_2_vig_incl_prob, QAdd(team_1_vig_incl_prob, team_2_vig_incl_prob))>>

compute_return_on_bet(o) ==
    IF o < 0 THEN Q(100, Abs(o)) ELSE Q(o, 100)

\* [status, value]: the threshold as a rational, nan for novig_prob = 0, and
\* ZeroDivisionError for novig_prob = 1 (break_even_return = 0)
compute_positive_ev_odds(novig_prob) ==
    IF novig_prob = QInt(0) THEN [status |-> "ok", value |-> NaN]
    ELSE LET break_even_return == QDiv(QSub(QInt(1), novig_prob), novig_prob)
         IN  IF QLess(break_even_return, QInt(1))
             THEN IF break_even_return = QInt(0)
                  THEN [status |-> "ZeroDivisionError", value |-> NaN]
                  ELSE [status |-> "ok",
                        value |-> QInt(QCeil(QDiv(QInt(-100), break_even_return)))]
             ELSE [status |-> "ok",
                   value |-> QInt(QCeil(QMul(break_even_return, QInt(100))))]

determin_arbitrage_opps(odds1, odds2) ==
    QLess(QAdd(compute_vig_implied_probability(odds1),
               compute_vig_implied_probability(odds2)), QInt(1))

compute_expected_return(o, novig_prob) ==
    IF o < 0
    THEN QSub(QMul(Q(100, Abs(o)), novig_prob), QSub(QInt(1), novig_prob))
    ELSE QSub(QMul(Q(o, 100), novig_prob), QSub(QInt(1), novig_prob))

-----------------------------------------------------------------------------
(* Python string order (code points) on the texts of the model *)

\* the names of the model in str order: upper case sorts before lower case
AllNames == <<"", "Bulls", "Celtics", "Draw", "Knicks", "Lakers", "No", "Over",
              "Under", "Yes", "over">>

NameRank(n) == CHOOSE i \in 1..Len(AllNames) : AllNames[i] = n

\* the code points of a number text: '+' 43, '-' 45, '.' 46, '0' 48
NumChars(t) ==
    IF t = Blank THEN <<>>
    ELSE (CASE t.sign = "+" -> <<43>> [] t.sign = "-" -> <<45>> [] OTHER -> <<>>)
         \o (IF t.whole < 10 THEN <<48 + t.whole>>
             ELSE <<48 + (t.whole \div 10), 48 + (t.whole % 10)>>)
         \o (IF t.frac = -1 THEN <<>> ELSE <<46, 48 + t.frac>>)

\* a < b for two strings given by their code points
CharsLess(a, b) ==
    \E k \in 1..(Len(a) + 1) :
        /\ \A i \in 1..(k - 1) : i <= Len(b) /\ a[i] = b[i]
        /\ k <= Len(b)
        /\ (k <= Len(a) => a[k] < b[k])

-----------------------------------------------------------------------------
(* Ordered dicts: a sequence of entries, in insertion order *)

QuoteIdx(quotes, label) ==
    IF \E i \in 1..Len(quotes) : quotes[i].label = label
    THEN CHOOSE i \in 1..Len(quotes) : quotes[i].label = label
    ELSE 0

BookIdx(lines, book) ==
    IF \E i \in 1..Len(lines) : lines[i].book = book
    THEN CHOOSE i \in 1..Len(lines) : lines[i].book = book
    ELSE 0

KeyIdx(od, key) ==
    IF \E i \in 1..Len(od) : od[i].key = key
    THEN CHOOSE i \in 1..Len(od) : od[i].key = key
    ELSE 0

\* d[label] = price
QuoteSet(quotes, label, price) ==
    IF QuoteIdx(quotes, label) = 0
    THEN Append(quotes, [label |-> label, price |-> price])
    ELSE [quotes EXCEPT ![QuoteIdx(quotes, label)].price = price]

-----------------------------------------------------------------------------
(* OddsAPI.organize_pairs *)

\* key=lambda x: (x.split(' ')[-1], x.split(' ')[0]), compared as tuples
PairKeyLess(x, y) ==
    \/ CharsLess(NumChars(x.num), NumChars(y.num))
    \/ /\ x.num = y.num
       /\ NameRank(x.name) < NameRank(y.name)

\* sorted(): stable, an element goes after the elements that are not greater
RECURSIVE SortedQuotes(_)
SortedQuotes(quotes) ==
    IF Len(quotes) <= 1 THEN quotes
    ELSE LET t == SortedQuotes(SubSeq(quotes, 1, Len(quotes) - 1))
             x == quotes[Len(quotes)]
             k == Cardinality({i \in 1..Len(t) : ~PairKeyLess(x.label, t[i].label)})
         IN  SubSeq(t, 1, k) \o <<x>> \o SubSeq(t, k + 1, Len(t))

\* called with at least four entries
organize_pairs(lines_dict) ==
    LET sorted_keys == SortedQuotes(lines_dict)
    IN  [sorted_keys EXCEPT ![2] = sorted_keys[4], ![4] = sorted_keys[2]]

-----------------------------------------------------------------------------
(* OddsAPI.output_game_odds *)

\* bet_spread_name = "_".join(map(str, [market_key, market_description, market_point_abs]))
bet_spread_name(market_key, market_outcome) ==
    [market      |-> market_key,
     description |-> market_outcome.description,
     point_abs   |-> PyStr(PyAbs(market_outcome.point))]

\* market_name_for_dict = f'{market_name} {market_point}'
market_name_for_dict(market_outcome) ==
    Str(market_outcome.name, PyStr(market_outcome.point))

\* the body of the innermost loop
AddOutcome(odds_dict, bookmaker_name, market_key, updated_time, market_outcome) ==
    LET key   == bet_spread_name(market_key, market_outcome)
        od1   == IF KeyIdx(odds_dict, key) = 0
                 THEN Append(odds_dict, [key |-> key, last_updated_at |-> updated_time,
                                         lines |-> <<>>])
                 ELSE odds_dict
        i     == KeyIdx(od1, key)
        ln1   == IF BookIdx(od1[i].lines, bookmaker_name) = 0
                 THEN Append(od1[i].lines, [book |-> bookmaker_name, quotes |-> <<>>])
                 ELSE od1[i].lines
        j     == BookIdx(ln1, bookmaker_name)
        q1    == QuoteSet(ln1[j].quotes, market_name_for_dict(market_outcome),
                          market_outcome.price)
        q2    == IF Len(q1) > 3 THEN organize_pairs(q1) ELSE q1
    IN  [od1 EXCEPT ![i] = [key |-> key, last_updated_at |-> updated_time,
                            lines |-> [ln1 EXCEPT ![j].quotes = q2]]]

RECURSIVE AddOutcomes(_, _, _, _, _)
AddOutcomes(odds_dict, bookmaker_name, market, market_outcomes, n) ==
    IF n = 0 THEN odds_dict
    ELSE AddOutcome(AddOutcomes(odds_dict, bookmaker_name, market, market_outcomes, n - 1),
                    bookmaker_name, market.key, market.last_update, market_outcomes[n])

RECURSIVE AddMarkets(_, _, _, _)
AddMarkets(odds_dict, bookmaker_name, markets, n) ==
    IF n = 0 THEN odds_dict
    ELSE AddOutcomes(AddMarkets(odds_dict, bookmaker_name, markets, n - 1),
                     bookmaker_name, markets[n], markets[n].outcomes,
                     Len(markets[n].outcomes))

RECURSIVE AddBookmakers(_, _, _)
AddBookmakers(odds_dict, bookmakers, n) ==
    IF n = 0 THEN odds_dict
    ELSE AddMarkets(AddBookmakers(odds_dict, bookmakers, n - 1),
                    bookmakers[n].key, bookmakers[n].markets,
                    Len(bookmakers[n].markets))

\* the odds_dict the call returns
GameOdds(odds_response) ==
    AddBookmakers(<<>>, odds_response.bookmakers, Len(odds_response.bookmakers))

\* the instance after the call
output_game_odds(self, odds_response) ==
    [self EXCEPT !.latest_ran_home_team = odds_response.home_team,
                 !.latest_ran_away_team = odds_response.away_team,
                 !.latest_ran_event_id = odds_response.id,
                 !.latest_ran_commence_time = odds_response.commence_time]

-----------------------------------------------------------------------------
(* OddsAPI.output_odds_csv: the loop that fills agg_dict.  agg_dict is the  *)
(* set of its rows; the key of a row is Uid(row).                           *)

\* f'{None}', the text of a counterpart that did not resolve
NoneText == [name |-> "None", sp |-> FALSE, num |-> Blank]

\* 'Not Available'
NotAvailable == [name |-> "Not Available", sp |-> FALSE, num |-> Blank]

\* the sportsbooks in the order of the pivoted columns (sorted by name)
BookOrder == <<"bk1", "bk2", "bk3">>

Books == {BookOrder[i] : i \in 1..Len(BookOrder)}

\* event_unique_id
Uid(row) == <<row.event_id, row.sportbook, row.event, row.event_type, row.last_updated_at>>

\* counter_event_unique_id
CounterUid(row) ==
    <<row.event_id, row.sportbook, row.event, row.event_type_counterpart,
      row.last_updated_at>>

HasUid(agg_dict, uid) == \E r \in agg_dict : Uid(r) = uid

RowOf(agg_dict, uid) == CHOOSE r \in agg_dict : Uid(r) = uid

\* agg_dict[uid]['no_vig_prob'] = p
SetNoVig(agg_dict, uid, p) ==
    {IF Uid(r) = uid THEN [r EXCEPT !.no_vig_prob = p] ELSE r : r \in agg_dict}

\* lines 256-261: the pairing, once agg_dict[event_unique_id] = row is done
PairRow(agg_dict, row, bet_counter) ==
    IF bet_counter > 0 /\ HasUid(agg_dict, CounterUid(row))
    THEN SetNoVig(SetNoVig(agg_dict, Uid(row),
                           compute_no_vig_probabilities(
                               RowOf(agg_dict, Uid(row)).odds,
                               RowOf(agg_dict, CounterUid(row)).odds)[1]),
                  CounterUid(row),
                  compute_no_vig_probabilities(
                      RowOf(agg_dict, Uid(row)).odds,
                      RowOf(agg_dict, CounterUid(row)).odds)[2])
    ELSE agg_dict

\* lines 242-255: the row, and agg_dict[event_unique_id] = row
AddRow(agg_dict, row, bet_counter) ==
    PairRow({r \in agg_dict : Uid(r) # Uid(row)} \cup {row}, row, bet_counter)

\* the row of a label whose counterpart call returned counter_event
NewRow(self, key, last_updated, sportsbook, quote, counter_event) ==
    [event_id               |-> self.latest_ran_event_id,
     home_team              |-> self.latest_ran_home_team,
     away_team              |-> self.latest_ran_away_team,
     sportbook              |-> sportsbook,
     event                  |-> key,
     event_type             |-> quote.label,
     event_type_counterpart |-> IF counter_event.status = "ok"
                                THEN counter_event.value ELSE NoneText,
     event_date             |-> self.latest_ran_commence_time,
     last_updated_at        |-> last_updated,
     odds                   |-> quote.price,
     no_vig_prob            |-> NaN]

\* the body of the innermost loop, for a label whose counterpart call returns
PairStep(agg_dict, self, key, last_updated, sportsbook, bet_counter, quote) ==
    AddRow(agg_dict,
           NewRow(self, key, last_updated, sportsbook, quote,
                  get_counter_event_name(quote.label, self.latest_ran_home_team,
                                         self.latest_ran_away_team)),
           bet_counter)

RECURSIVE PairQuotes(_, _, _, _, _, _)
PairQuotes(agg_dict, self, key, last_updated, line, n) ==
    IF n = 0 THEN agg_dict
    ELSE PairStep(PairQuotes(agg_dict, self, key, last_updated, line, n - 1),
                  self, key, last_updated, line.book, n - 1, line.quotes[n])

RECURSIVE PairLines(_, _, _, _)
PairLines(agg_dict, self, value, n) ==
    IF n = 0 THEN agg_dict
    ELSE PairQuotes(PairLines(agg_dict, self, value, n - 1), self, value.key,
                    value.last_updated_at, value.lines[n], Len(value.lines[n].quotes))

RECURSIVE PairDict(_, _, _, _)
PairDict(agg_dict, self, odds_dict, n) ==
    IF n = 0 THEN agg_dict
    ELSE PairLines(PairDict(agg_dict, self, odds_dict, n - 1), self, odds_dict[n],
                   Len(odds_dict[n].lines))

\* agg_dict when the loop ends
AggDict(self, odds_dict) == PairDict({}, self, odds_dict, Len(odds_dict))

\* some get_counter_event_name call of the loop raises
CounterRaises(self, odds_dict) ==
    \E i \in 1..Len(odds_dict) : \E j \in 1..Len(odds_dict[i].lines) :
        \E k \in 1..Len(odds_dict[i].lines[j].quotes) :
            get_counter_event_name(odds_dict[i].lines[j].quotes[k].label,
                                   self.latest_ran_home_team,
                                   self.latest_ran_away_team).status = "TypeError"

-----------------------------------------------------------------------------
(* OddsAPI.output_odds_csv: the pivoted table.  A table is a set of rows.   *)

\* the index of pivot_table, after the two fillna calls
PivotIndex(r) ==
    [event_id               |-> r.event_id,
     home_team              |-> r.home_team,
     away_team              |-> r.away_team,
     event                  |-> r.event,
     event_type             |-> r.event_type,
     event_type_counterpart |-> IF r.event_type_counterpart = NoneText
                                THEN NotAvailable ELSE r.event_type_counterpart,
     event_date             |-> r.event_date,
     last_updated_at        |-> r.last_updated_at]

\* the cells of one pivoted row: per sportsbook the price and the filled no_vig_prob
Cells(agg_dict, idx) ==
    [b \in Books |->
        IF \E r \in agg_dict : PivotIndex(r) = idx /\ r.sportbook = b
        THEN LET r == CHOOSE r \in agg_dict : PivotIndex(r) = idx /\ r.sportbook = b
             IN  [odds |-> QInt(r.odds),
                  no_vig_prob |-> IF IsNaN(r.no_vig_prob) THEN QInt(0) ELSE r.no_vig_prob]
        ELSE [odds |-> NaN, no_vig_prob |-> NaN]]

\* sum(axis = 1) over the cells that are not nan
RECURSIVE RowSum(_, _, _)
RowSum(cells, col, n) ==
    IF n = 0 THEN QInt(0)
    ELSE IF IsNaN(cells[BookOrder[n]][col]) THEN RowSum(cells, col, n - 1)
    ELSE QAdd(RowSum(cells, col, n - 1), cells[BookOrder[n]][col])

\* notnull().sum(axis = 1)
RowCount(cells, col) == Cardinality({b \in Books : ~IsNaN(cells[b][col])})

\* mean(axis = 1)
RowMean(cells, col) ==
    QDiv(RowSum(cells, col, Len(BookOrder)), QInt(RowCount(cells, col)))

\* a max(axis = 1) that takes the smallest cell
RowMaxAsMin(cells, col) ==
    CHOOSE m \in {cells[b][col] : b \in {c \in Books : ~IsNaN(cells[c][col])}} :
        \A b \in Books : ~IsNaN(cells[b][col]) => QLeq(m, cells[b][col])

\* max(axis = 1)
RowMax(cells, col) ==
    CHOOSE m \in {cells[b][col] : b \in {c \in Books : ~IsNaN(cells[c][col])}} :
        \A b \in Books : ~IsNaN(cells[b][col]) => QLeq(cells[b][col], m)

\* idxmax(axis = 1): the first column holding the maximum
RowIdxMax(cells, col) ==
    BookOrder[CHOOSE i \in 1..Len(BookOrder) :
                /\ cells[BookOrder[i]][col] = RowMax(cells, col)
                /\ \A j \in 1..(i - 1) : cells[BookOrder[j]][col] # RowMax(cells, col)]

DfRow(agg_dict, idx) ==
    LET cells           == Cells(agg_dict, idx)
        best_odds       == RowMax(cells, "odds")[1]
        avg_no_vig_odds == RowMean(cells, "no_vig_prob")
    IN  [event_id               |-> idx.event_id,
         home_team              |-> idx.home_team,
         away_team              |-> idx.away_team,
         event                  |-> idx.event,
         event_type             |-> idx.event_type,
         event_type_counterpart |-> idx.event_type_counterpart,
         event_date             |-> idx.event_date,
         last_updated_at        |-> idx.last_updated_at,
         odds                   |-> [b \in Books |-> cells[b].odds],
         avg_odds               |-> RowMean(cells, "odds"),
         best_odds              |-> best_odds,
         sportsbook_w_best_odds |-> RowIdxMax(cells, "odds"),
         avg_no_vig_odds        |-> avg_no_vig_odds,
         num_sportsbooks        |-> RowCount(cells, "odds"),
         min_odds_needed_positive_ev |-> compute_positive_ev_odds(avg_no_vig_odds).value,
         ev_pct                 |-> compute_expected_return(best_odds, avg_no_vig_odds)]

OddsDf(agg_dict) == {DfRow(agg_dict, idx) : idx \in {PivotIndex(r) : r \in agg_dict}}

\* how the call ends: "ok" or the exception it raises
\*   None.items()                            AttributeError
\*   float(None) in get_counter_event_name   TypeError
\*   odds_df['event_type_counterpart'] of the frame of an empty agg_dict: KeyError
\*   compute_positive_ev_odds(1)             ZeroDivisionError
CsvStatus(self, odds_collection, agg, df) ==
    IF odds_collection.status = "None" THEN "AttributeError"
    ELSE IF CounterRaises(self, odds_collection.dict) THEN "TypeError"
    ELSE IF agg = {} THEN "KeyError"
    ELSE IF \E r \in df : compute_positive_ev_odds(r.avg_no_vig_odds).status # "ok"
    THEN "ZeroDivisionError"
    ELSE "ok"

\* [self, status]; an exception leaves the instance as it was
CsvResult(self, d, agg, df, status) ==
    [status |-> status,
     self   |-> IF status # "ok" THEN self
                ELSE [self EXCEPT
                        !.agg_dict = agg,
                        !.latest_ran_df = [stage |-> "odds", rows |-> df],
                        !.latest_ran_timestamp = d[Len(d)].last_updated_at]]

CsvFromDf(self, odds_collection, agg, df) ==
    CsvResult(self, odds_collection.dict, agg, df,
              CsvStatus(self, odds_collection, agg, df))

CsvFromAgg(self, odds_collection, agg) ==
    CsvFromDf(self, odds_collection, agg, OddsDf(agg))

\* [self, status]: the instance after the call, and how the call ended
output_odds_csv(self, odds_collection) ==
    CsvFromAgg(self, odds_collection, AggDict(self, odds_collection.dict))

-----------------------------------------------------------------------------
(* OddsAPI.compute_arbitrage_opps *)

\* the rows of the left join on ['event', 'event_type_counterpart']; cp_event_id
\* records the event_id of the right-hand row that was joined (not a column of
\* the frame: it keeps apart the rows the join makes from different right rows)
JoinRows(odds_df) ==
    UNION { LET right == {q \in odds_df : /\ q.event = r.event
                                           /\ q.event_type = r.event_type_counterpart}
            IN  IF right = {}
                THEN {[row |-> r,
                       counterpart_event_best_odds |-> NaN,
                       counterpart_sportsbook_w_best_odds |-> "nan",
                       cp_event_id |-> "nan",
                       arbitrage_ind |-> determin_arbitrage_opps(QInt(r.best_odds), NaN)]}
                ELSE {[row |-> r,
                       counterpart_event_best_odds |-> QInt(q.best_odds),
                       counterpart_sportsbook_w_best_odds |-> q.sportsbook_w_best_odds,
                       cp_event_id |-> q.event_id,
                       arbitrage_ind |-> determin_arbitrage_opps(QInt(r.best_odds),
                                                                 QInt(q.best_odds))]
                      : q \in right}
          : r \in odds_df }

compute_arbitrage_opps(self, odds_df) ==
    [self EXCEPT !.latest_ran_df = [stage |-> "arb", rows |-> JoinRows(odds_df)]]

-----------------------------------------------------------------------------
(* The provider: events and the odds responses it can serve *)

Events == <<"evA", "evB">>

EventIds == {Events[i] : i \in 1..Len(Events)}

HomeOf(e) == IF e = "evA" THEN "Lakers" ELSE "Bulls"

AwayOf(e) == IF e = "evA" THEN "Celtics" ELSE "Knicks"

CommenceOf(e) == IF e = "evA" THEN 10 ELSE 20

Outcome(n, pt, pr) == [name |-> n, description |-> "", point |-> pt, price |-> pr]

Market(k, upd, outs) == [key |-> k, last_update |-> upd, outcomes |-> outs]

Bookmaker(k, ms) == [key |-> k, markets |-> ms]

Response(e, bms) ==
    [listed |-> TRUE, id |-> e, commence_time |-> CommenceOf(e),
     home_team |-> HomeOf(e), away_team |-> AwayOf(e), bookmakers |-> bms]

\* an event the provider does not serve: every request for it fails
NotListed(e) == [Response(e, <<>>) EXCEPT !.listed = FALSE]

\* the sequences of at most n distinct elements of S
RECURSIVE Listings(_, _)
Listings(S, n) ==
    IF n = 0 THEN {<<>>}
    ELSE {<<>>} \cup UNION {{<<x>> \o t : t \in Listings(S \ {x}, n - 1)} : x \in S}

\* the outcomes a bookmaker may list, per market, for event e
SpreadPool(e) ==
    {Outcome(HomeOf(e), PyFloat(TRUE, 35), -150), Outcome(AwayOf(e), PyFloat(FALSE, 35), 100),
     Outcome(HomeOf(e), PyFloat(FALSE, 35), 300), Outcome(AwayOf(e), PyFloat(TRUE, 35), -400)}

ThreeWayPool(e) ==
    {Outcome(HomeOf(e), PyFloat(TRUE, 15), -100), Outcome(AwayOf(e), PyFloat(FALSE, 15), 150),
     Outcome("Draw", PyFloat(FALSE, 15), 300)}

IntPool(e) ==
    {Outcome(HomeOf(e), PyInt(-3), -150), Outcome(AwayOf(e), PyInt(3), 150)}

H2HPool(e) ==
    {Outcome(HomeOf(e), NoPoint, -150), Outcome(AwayOf(e), NoPoint, 100),
     Outcome("Draw", NoPoint, 300)}

YesNoPool(e) == {Outcome("Yes", NoPoint, -100), Outcome("No", NoPoint, -150)}

TotalsMarket(e) ==
    Market("totals", 1,
           IF e = "evA"
           THEN <<Outcome("Over", PyFloat(FALSE, 75), -100),
                  Outcome("Under", PyFloat(FALSE, 75), -150)>>
           ELSE <<Outcome("Over", PyFloat(FALSE, 75), 150),
                  Outcome("Under", PyFloat(FALSE, 75), -300)>>)

SecondPool(e) ==
    {Outcome(HomeOf(e), PyFloat(TRUE, 35), -300), Outcome(AwayOf(e), PyFloat(FALSE, 35), 300)}

\* the markets a bookmaker may show whose listing holds at most n outcomes
MainMarkets(e, n) ==
    {Market("spreads", 1, l) : l \in Listings(SpreadPool(e), n)
                                     \cup Listings(ThreeWayPool(e), n)
                                     \cup Listings(IntPool(e), n)}
    \cup {Market("h2h", 1, l) : l \in Listings(H2HPool(e), n)}
    \cup {Market("btts", 1, l) : l \in Listings(YesNoPool(e), n)}

\* no bookmaker at all; one bookmaker with one market; one bookmaker with a market
\* and the totals market; two bookmakers on the spread line
RichSnapshots(e) ==
    {Response(e, <<>>)}
    \cup {Response(e, <<Bookmaker("bk1", <<m>>)>>) : m \in MainMarkets(e, MaxOutcomes)}
    \cup {Response(e, <<Bookmaker("bk1", <<m, TotalsMarket(e)>>)>>)
            : m \in MainMarkets(e, MaxPaired)}
    \cup {Response(e, <<Bookmaker("bk1", <<Market("spreads", 1, l1)>>),
                        Bookmaker("bk2", <<Market("spreads", 2, l2)>>)>>)
            : l1 \in Listings(SpreadPool(e), MaxPaired) \ {<<>>},
              l2 \in Listings(SecondPool(e), MaxSecond) \ {<<>>}}

\* a slate: each event quoted by one bookmaker on a complete two-sided line or two
SlateSnapshots(e) ==
    {Response(e, <<Bookmaker("bk1", ms)>>)
        : ms \in {<<TotalsMarket(e)>>,
                  <<Market("spreads", 1, <<Outcome(HomeOf(e), PyFloat(TRUE, 35), -150),
                                           Outcome(AwayOf(e), PyFloat(FALSE, 35), 100)>>)>>,
                  <<Market("spreads", 1, <<Outcome(HomeOf(e), PyFloat(TRUE, 35), -150),
                                           Outcome(AwayOf(e), PyFloat(FALSE, 35), 100)>>),
                    TotalsMarket(e)>>,
                  <<Market("h2h", 1, <<Outcome(HomeOf(e), NoPoint, -150),
                                       Outcome(AwayOf(e), NoPoint, 100)>>)>>}}

-----------------------------------------------------------------------------
(* The OddsAPI instance *)

Unset == "unset"

UnsetTime == -1

NoDf == [stage |-> "unset", rows |-> {}]

Self ==
    [latest_ran_home_team     |-> latest_ran_home_team,
     latest_ran_away_team     |-> latest_ran_away_team,
     latest_ran_event_id      |-> latest_ran_event_id,
     latest_ran_commence_time |-> latest_ran_commence_time,
     latest_ran_timestamp     |-> latest_ran_timestamp,
     latest_ran_df            |-> latest_ran_df,
     agg_dict                 |-> agg_dict_out,
     result_df                |-> result_df]

SetSelf(s) ==
    /\ latest_ran_home_team' = s.latest_ran_home_team
    /\ latest_ran_away_team' = s.latest_ran_away_team
    /\ latest_ran_event_id' = s.latest_ran_event_id
    /\ latest_ran_commence_time' = s.latest_ran_commence_time
    /\ latest_ran_timestamp' = s.latest_ran_timestamp
    /\ latest_ran_df' = s.latest_ran_df
    /\ agg_dict_out' = s.agg_dict
    /\ result_df' = s.result_df

\* what a fetch hands back: None, or the odds_dict
NoneCollection == [status |-> "None", dict |-> <<>>]

Collection(d) == [status |-> "ok", dict |-> d]

Unfetched == [status |-> "unfetched", dict |-> <<>>]

Call(op, e, status, ret) == [op |-> op, event |-> e, status |-> status, ret |-> ret]

\* get_odds: [self, ret]; status_code 200 iff the event is served and the request
\* went through
get_odds(self, e, went_through) ==
    IF snapshot[e].listed /\ went_through
    THEN [self |-> output_game_odds(self, snapshot[e]),
          ret  |-> Collection(GameOdds(snapshot[e]))]
    ELSE [self |-> self, ret |-> NoneCollection]

\* the instance when a public call returns: the locals of the call are gone
Returned(self) == [self EXCEPT !.agg_dict = {}]

\* lines 340-351: what the call returns for the joined table
PositiveEvReturn(odds_dataframe) ==
    IF {r \in odds_dataframe : QLess(QInt(0), r.row.ev_pct)} = {} THEN "None"
    ELSE IF {r \in odds_dataframe : r.arbitrage_ind} = {} THEN "positive_ev"
    ELSE "positive_ev, arb_df"

PositiveEvJoined(joined) ==
    [self |-> Returned(joined), status |-> "ok",
     ret |-> PositiveEvReturn(joined.latest_ran_df.rows)]

PositiveEvAfterCsv(fetched, csv) ==
    IF csv.status # "ok"
    THEN [self |-> fetched.self, status |-> csv.status, ret |-> ""]
    ELSE PositiveEvJoined(compute_arbitrage_opps(csv.self, csv.self.latest_ran_df.rows))

PositiveEvAfterFetch(fetched) ==
    PositiveEvAfterCsv(fetched, output_odds_csv(fetched.self, fetched.ret))

\* get_all_positive_ev_arbitrage_opps, historical_event = False: [self, status, ret]
get_all_positive_ev_arbitrage_opps(self, e, went_through) ==
    PositiveEvAfterFetch(get_odds(self, e, went_through))

\* the body of the loop of get_all_odds, historical_event = False, on
\* prev = [self, df_list, status]
AllOddsAfterCsv(prev, fetched, csv) ==
    IF csv.status # "ok"
    THEN [self |-> fetched.self, df_list |-> prev.df_list, status |-> csv.status]
    ELSE [self |-> csv.self,
          df_list |-> Append(prev.df_list, csv.self.latest_ran_df.rows),
          status |-> "ok"]

AllOddsAfterFetch(prev, fetched) ==
    AllOddsAfterCsv(prev, fetched, output_odds_csv(fetched.self, fetched.ret))

AllOddsStep(prev, event_id) ==
    IF prev.status # "ok" THEN prev
    \* print(f'... at {self.latest_ran_timestamp}')
    ELSE IF prev.self.latest_ran_timestamp = UnsetTime
    THEN [prev EXCEPT !.status = "AttributeError"]
    ELSE AllOddsAfterFetch(prev, get_odds(prev.self, event_id, TRUE))

RECURSIVE AllOddsLoop(_, _, _)
AllOddsLoop(self, upcoming, n) ==
    IF n = 0 THEN [self |-> self, df_list |-> <<>>, status |-> "ok"]
    ELSE AllOddsStep(AllOddsLoop(self, upcoming, n - 1), upcoming[n])

\* the events get_upcoming_matches lists, in the order of the response
Upcoming == SelectSeq(Events, LAMBDA e : snapshot[e].listed)

\* pd.concat(df_list, ignore_index = True)
Concat(df_list) == UNION {df_list[i] : i \in 1..Len(df_list)}

\* lines 415-421
AllOddsReturn(loop) ==
    IF loop.status # "ok"
    THEN [self |-> Returned(loop.self), status |-> loop.status, ret |-> ""]
    ELSE IF loop.df_list # <<>>
    THEN [self |-> [Returned(loop.self) EXCEPT
                        !.result_df = [stage |-> "odds", rows |-> Concat(loop.df_list)]],
          status |-> "ok", ret |-> "result"]
    ELSE [self |-> Returned(loop.self), status |-> "ok", ret |-> "None"]

\* get_all_odds, historical_event = False: [self, status, ret]
get_all_odds(self, matches_went_through) ==
    IF ~matches_went_through
    THEN [self |-> self, status |-> "AttributeError", ret |-> ""]  \* None.keys()
    ELSE AllOddsReturn(AllOddsLoop(self, Upcoming, Len(Upcoming)))

-----------------------------------------------------------------------------
(* Actions: the public calls a user of the instance makes.  A request for   *)
(* the odds of an event goes through iff the provider serves the event.     *)

\* the call op(e) ends as r = [self, status, ret]
Returns(op, e, r) ==
    /\ SetSelf(r.self)
    /\ last_call' = Call(op, e, r.status, r.ret)
    /\ UNCHANGED <<arg, res, snapshot, sweepVars>>

GetOddsReturns(e, r) ==
    /\ odds' = [odds EXCEPT ![e] = r.ret]
    /\ Returns("get_odds", e, [self |-> r.self, status |-> "ok", ret |-> r.ret.status])

GetOdds(e) == GetOddsReturns(e, get_odds(Returned(Self), e, TRUE))

OutputOddsCsvReturns(e, r) ==
    Returns("output_odds_csv", e, [self |-> r.self, status |-> r.status, ret |-> ""])

\* the caller passes the odds_dict it got for event e
OutputOddsCsv(e) ==
    /\ odds[e] # Unfetched
    /\ OutputOddsCsvReturns(e, output_odds_csv(Returned(Self), odds[e]))
    /\ UNCHANGED odds

\* the caller passes the table output_odds_csv or get_all_odds produced
ComputeArbitrageOpps(table) ==
    /\ Self[table].stage = "odds"
    /\ Returns("compute_arbitrage_opps", table,
               [self |-> Returned(compute_arbitrage_opps(Self, Self[table].rows)),
                status |-> "ok", ret |-> ""])
    /\ UNCHANGED odds

GetAllPositiveEvArbitrageOpps(e) ==
    /\ Returns("get_all_positive_ev_arbitrage_opps", e,
               get_all_positive_ev_arbitrage_opps(Returned(Self), e, TRUE))
    /\ UNCHANGED odds

GetAllOdds ==
    \E matches_went_through \in BOOLEAN :
        /\ Returns("get_all_odds", "", get_all_odds(Returned(Self), matches_went_through))
        /\ UNCHANGED odds

\* the instance after __init__, and a caller that has fetched nothing
InitInstance ==
    /\ odds = [e \in EventIds |-> Unfetched]
    /\ latest_ran_home_team = Unset
    /\ latest_ran_away_team = Unset
    /\ latest_ran_event_id = Unset
    /\ latest_ran_commence_time = UnsetTime
    /\ latest_ran_timestamp = UnsetTime
    /\ latest_ran_df = NoDf
    /\ agg_dict_out = {}
    /\ result_df = NoDf
    /\ last_call = Call("__init__", "", "ok", "")
    /\ latest_historical_ran_time = UnsetTime
    /\ datetime_var = UnsetTime
    /\ historcal_df = NoDf
    /\ csv_files = {}
    /\ sweep_pc = "idle"

Init ==
    /\ arg = <<>>
    /\ res = <<>>
    /\ InitInstance
    /\ \/ \E r \in RichSnapshots("evA") :
             snapshot = [e \in EventIds |-> IF e = "evA" THEN r ELSE NotListed(e)]
       \/ snapshot \in [EventIds -> UNION {SlateSnapshots(e) : e \in EventIds}]
          /\ \A e \in EventIds : snapshot[e].id = e

Next ==
    \/ \E e \in EventIds : GetOdds(e)
    \/ \E e \in EventIds : OutputOddsCsv(e)
    \/ \E table \in {"latest_ran_df", "result_df"} : ComputeArbitrageOpps(table)
    \/ \E e \in EventIds : GetAllPositiveEvArbitrageOpps(e)
    \/ GetAllOdds

Spec == Init /\ [][Next]_vars

-----------------------------------------------------------------------------
(* The counterpart resolver on its own: the label is resolved, and the      *)
(* result is resolved again.                                                *)

LabelNames == {"Lakers", "Celtics", "Draw", "Over", "Under", "over", "Yes", "No"}

NumTexts ==
    {Blank} \cup [sign : {"", "-", "+"}, whole : 0..MaxWhole, frac : {-1, 0, 5}]

\* name ++ " " ++ number, a name alone, and the empty string
Labels ==
    {Str(n, t) : n \in LabelNames, t \in NumTexts}
    \cup {[name |-> n, sp |-> FALSE, num |-> Blank] : n \in LabelNames}
    \cup {EmptyStr}

Teams == {"Lakers", "Celtics"}

InitResolver ==
    /\ arg \in [event_type : Labels, home_team : Teams, away_team : Teams]
    /\ res = <<>>
    /\ InitInstance
    /\ snapshot = [e \in EventIds |-> NotListed(e)]

\* the next call: on the label, then on what the first call returned (a call on
\* None raises TypeError in re.match)
Resolve ==
    /\ Len(res) < 2
    /\ res # <<>> => res[1].status \in {"ok", "None"}
    /\ res' = Append(res,
                     IF res = <<>>
                     THEN get_counter_event_name(arg.event_type, arg.home_team,
                                                 arg.away_team)
                     ELSE IF res[1].status = "None" THEN Raise("TypeError")
                     ELSE get_counter_event_name(res[1].value, arg.home_team,
                                                 arg.away_team))
    /\ UNCHANGED <<arg, pipeVars>>

SpecResolver == InitResolver /\ [][Resolve]_vars

\* the four rules of the resolver, as the specification words them
IsBinary(x) == x = Str("Yes", Blank) \/ x = Str("No", Blank)

IsMoneyline(x, home, away) == x = Str(home, Blank) \/ x = Str(away, Blank)

IsTotals(x) == x.sp /\ x.name \in {"Over", "Under"} /\ x.num # Blank /\ x.num.sign = ""

IsSpread(x) == x.sp /\ x.name # "" /\ x.num # Blank

\* a label of a supported family, as the pipeline builds it for this event
Supported(x, home, away) ==
    \/ IsBinary(x)
    \/ IsMoneyline(x, home, away)
    \/ IsTotals(x)
    \/ x.sp /\ x.name \in {home, away} /\ x.num # Blank
       /\ x.num # [sign |-> "-", whole |-> 0, frac |-> -1]   \* str(0) is "0"

\* C1: counterpart resolution is an involution: for home # away and every label x
\* of a supported family, resolving the counterpart of x gives x back.
C1_Involution ==
    (/\ Len(res) = 2
     /\ arg.home_team # arg.away_team
     /\ Supported(arg.event_type, arg.home_team, arg.away_team))
    => res[2] = Ret(arg.event_type)

\* C2: get_counter_event_name never raises: a label that matches none of the four
\* rules gets the not-resolvable value None.
C2_NoneNotRaise ==
    (/\ Len(res) >= 1
     /\ ~IsBinary(arg.event_type)
     /\ ~IsMoneyline(arg.event_type, arg.home_team, arg.away_team)
     /\ ~IsTotals(arg.event_type)
     /\ ~IsSpread(arg.event_type))
    => res[1] = RetNone

-----------------------------------------------------------------------------
(* One outcome quoted by up to three bookmakers at any mix of prices *)

\* valid American prices
Prices == {-150, -100, 100, 150}

\* q[b] is the price bookmaker b quotes for the home side, 0 when b does not quote
QuotedBy(q) ==
    SelectSeq([i \in 1..Len(BookOrder) |->
                  Bookmaker(BookOrder[i],
                            <<Market("h2h", i, <<Outcome(HomeOf("evA"), NoPoint,
                                                         q[BookOrder[i]])>>)>>)],
              LAMBDA b : b.markets[1].outcomes[1].price # 0)

PriceSnapshots ==
    {Response("evA", QuotedBy(q)) :
        q \in {f \in [Books -> Prices \cup {0}] : \E b \in Books : f[b] # 0}}

InitPrices ==
    /\ arg = <<>>
    /\ res = <<>>
    /\ InitInstance
    /\ \E r \in PriceSnapshots :
          snapshot = [e \in EventIds |-> IF e = "evA" THEN r ELSE NotListed(e)]

SpecPrices == InitPrices /\ [][Next]_vars

\* the aggregated rows the instance holds
HeldRows ==
    (IF latest_ran_df.stage = "arb" THEN {j.row : j \in latest_ran_df.rows}
     ELSE latest_ran_df.rows)
    \cup result_df.rows

\* C6: best_odds of an aggregated row is one of the quoted prices, and no quoted
\* price of the row has a higher payout multiple (compute_return_on_bet).
C6_BestPrice ==
    \A r \in HeldRows :
        /\ \E b \in Books : r.odds[b] = QInt(r.best_odds)
        /\ \A b \in Books :
              ~IsNaN(r.odds[b]) =>
                  QLeq(compute_return_on_bet(r.odds[b][1]),
                       compute_return_on_bet(r.best_odds))

\* C6 witness: output_odds_csv returned a row quoted by several bookmakers at
\* prices of both signs.
C6_Witness ==
    /\ last_call.op = "output_odds_csv"
    /\ last_call.status = "ok"
    /\ \E r \in HeldRows : \E b1, b2 \in Books :
          /\ ~IsNaN(r.odds[b1]) /\ r.odds[b1][1] < 0
          /\ ~IsNaN(r.odds[b2]) /\ r.odds[b2][1] > 0

-----------------------------------------------------------------------------
(* The pipeline on the snapshot of one event *)

\* output_odds_csv(odds[e]) has just returned without an exception
CsvDone(e) ==
    /\ last_call.op = "output_odds_csv"
    /\ last_call.event = e
    /\ last_call.status = "ok"

\* the instance still holds the context of event e
OwnContext(e) == latest_ran_event_id = e

\* the no_vig_prob attached to each outcome of each bookmaker and line
NoVigs(agg) == {<<r.sportbook, r.event, r.event_type, r.no_vig_prob>> : r \in agg}

\* the orders in which a feed may list the outcomes l
Reorderings(l) ==
    {p \in Listings({l[k] : k \in 1..Len(l)}, Len(l)) : Len(p) = Len(l)}

\* the response shows one bookmaker with one market, all of it one line
OneLine(r) ==
    /\ Len(r.bookmakers) = 1
    /\ Len(r.bookmakers[1].markets) = 1
    /\ \A k \in 1..Len(r.bookmakers[1].markets[1].outcomes) :
          bet_spread_name(r.bookmakers[1].markets[1].key,
                          r.bookmakers[1].markets[1].outcomes[k])
          = bet_spread_name(r.bookmakers[1].markets[1].key,
                            r.bookmakers[1].markets[1].outcomes[1])

\* C3: pairing does not depend on the order of the outcomes in the feed: for one
\* bookmaker and one line, every reordering of the same outcomes, fed through
\* output_game_odds and output_odds_csv, attaches the same no_vig_prob to each
\* outcome.
C3_OrderIndependent ==
    \A e \in EventIds :
        (CsvDone(e) /\ OwnContext(e) /\ OneLine(snapshot[e])) =>
            \A p \in Reorderings(snapshot[e].bookmakers[1].markets[1].outcomes) :
                NoVigs(AggDict(Self,
                               GameOdds([snapshot[e] EXCEPT
                                   !.bookmakers[1].markets[1].outcomes = p])))
                = NoVigs(agg_dict_out)

\* C4: after the pairing loop of output_odds_csv, an outcome has a no-vig
\* probability only if its counterpart at the same bookmaker and line has one too,
\* and the two sum to exactly 1.
C4_PairsSumToOne ==
    \A e \in EventIds :
        (CsvDone(e) /\ OwnContext(e)) =>
            \A r \in agg_dict_out :
                ~IsNaN(r.no_vig_prob) =>
                    \E c \in agg_dict_out :
                        /\ Uid(c) = CounterUid(r)
                        /\ ~IsNaN(c.no_vig_prob)
                        /\ QAdd(r.no_vig_prob, c.no_vig_prob) = QInt(1)

\* the sum of the no-vig probabilities of the first n bookmakers that were paired
\* on the outcome of row idx
RECURSIVE PairedSum(_, _, _)
PairedSum(agg, idx, n) ==
    IF n = 0 THEN QInt(0)
    ELSE IF \E r \in agg : /\ PivotIndex(r) = idx /\ r.sportbook = BookOrder[n]
                           /\ ~IsNaN(r.no_vig_prob)
    THEN QAdd(PairedSum(agg, idx, n - 1),
              (CHOOSE r \in agg : PivotIndex(r) = idx /\ r.sportbook = BookOrder[n]).no_vig_prob)
    ELSE PairedSum(agg, idx, n - 1)

PairedCount(agg, idx) ==
    Cardinality({r \in agg : PivotIndex(r) = idx /\ ~IsNaN(r.no_vig_prob)})

\* C5: avg_no_vig_odds of a row is the mean of the no-vig probabilities of only
\* those bookmakers for which pairing succeeded; a bookmaker whose no-vig
\* probability stayed unset contributes nothing.
C5_MeanOverPaired ==
    \A e \in EventIds :
        (CsvDone(e) /\ OwnContext(e)) =>
            \A idx \in {PivotIndex(r) : r \in agg_dict_out} :
                PairedCount(agg_dict_out, idx) > 0 =>
                    \E row \in latest_ran_df.rows :
                        /\ row.event = idx.event
                        /\ row.event_type = idx.event_type
                        /\ row.avg_no_vig_odds =
                               QDiv(PairedSum(agg_dict_out, idx, Len(BookOrder)),
                                    QInt(PairedCount(agg_dict_out, idx)))

-----------------------------------------------------------------------------
(* The join, the event context, bad lines and missing data *)

\* C7: in the table compute_arbitrage_opps leaves, the counterpart columns of a
\* row come from a row of the same event (or are empty), never from a row of
\* another event, and the join yields exactly one output row per input row; this
\* for every table passed in, the multi-event table of get_all_odds included.
C7_JoinWithinEvent ==
    latest_ran_df.stage = "arb" =>
        /\ \A j \in latest_ran_df.rows : j.cp_event_id \in {"nan", j.row.event_id}
        /\ Cardinality(latest_ran_df.rows)
               = Cardinality({j.row : j \in latest_ran_df.rows})

\* C8: whatever calls were made on the instance before, every row that
\* output_odds_csv builds from the odds_dict of event e carries e's event_id,
\* home_team, away_team and commence time, and its counterpart label is resolved
\* with e's team names.
C8_RowsCarryOwnEvent ==
    \A e \in EventIds :
        CsvDone(e) =>
            \A r \in agg_dict_out :
                /\ r.event_id = e
                /\ r.home_team = HomeOf(e)
                /\ r.away_team = AwayOf(e)
                /\ r.event_date = CommenceOf(e)
                /\ get_counter_event_name(r.event_type, HomeOf(e), AwayOf(e)).status = "ok"
                      => r.event_type_counterpart
                             = get_counter_event_name(r.event_type, HomeOf(e), AwayOf(e)).value

\* a bookmaker shows an odd number of outcomes on the line, or an outcome whose
\* label does not resolve
BadQuotes(e, quotes) ==
    \/ Len(quotes) % 2 = 1
    \/ \E k \in 1..Len(quotes) :
          get_counter_event_name(quotes[k].label, HomeOf(e), AwayOf(e)).status # "ok"

BadKeys(e, odds_dict) ==
    {odds_dict[i].key : i \in {k \in 1..Len(odds_dict) :
        \E j \in 1..Len(odds_dict[k].lines) : BadQuotes(e, odds_dict[k].lines[j].quotes)}}

\* the odds_dict without the lines keys
WithoutKeys(odds_dict, keys) == SelectSeq(odds_dict, LAMBDA v : v.key \notin keys)

\* C9: when a line of event e has, for some bookmaker, an unresolvable label or
\* an odd number of outcomes, output_odds_csv still completes, no outcome of that
\* line gets a no-vig probability, and the rows of the other lines are the rows
\* produced when the bad line is absent.
C9_BadLineLocal ==
    \A e \in EventIds :
        ( /\ last_call.op = "output_odds_csv"
          /\ last_call.event = e
          /\ OwnContext(e)
          /\ odds[e].status = "ok"
          /\ BadKeys(e, odds[e].dict) # {} ) =>
            /\ last_call.status = "ok"
            /\ \A r \in agg_dict_out :
                  r.event \in BadKeys(e, odds[e].dict) => IsNaN(r.no_vig_prob)
            /\ {r \in latest_ran_df.rows : r.event \notin BadKeys(e, odds[e].dict)}
                  = OddsDf(AggDict(Self, WithoutKeys(odds[e].dict, BadKeys(e, odds[e].dict))))

\* the provider has nothing usable for event e: no response, or a response
\* without a single outcome
NoData(e) == ~snapshot[e].listed \/ GameOdds(snapshot[e]) = <<>>

\* C10: when there is no usable data for event e (the fetch returned None, or
\* the odds_dict is empty), output_odds_csv and
\* get_all_positive_ev_arbitrage_opps return instead of raising.
C10_NoDataNoCrash ==
    \A e \in EventIds :
        ( /\ last_call.op \in {"output_odds_csv", "get_all_positive_ev_arbitrage_opps"}
          /\ last_call.event = e
          /\ NoData(e) ) =>
            last_call.status = "ok"

-----------------------------------------------------------------------------
(* compute_positive_ev_odds on its own, on the probabilities n/d in [0, 1] *)

\* largest denominator of a probability
MaxDen == 16

Probabilities == {Q(n, d) : n \in 0..MaxDen, d \in 1..MaxDen} \ {q \in {Q(n, d) : n \in 0..MaxDen, d \in 1..MaxDen} : QLess(QInt(1), q)}

\* the valid American prices up to the largest break-even price of the run
ValidPrices == ((-100 * MaxDen)..(-100)) \cup (100..(100 * MaxDen))

InitBreakEven ==
    /\ arg \in [novig_prob : Probabilities]
    /\ res = <<>>
    /\ InitInstance
    /\ snapshot = [e \in EventIds |-> NotListed(e)]

ComputePositiveEvOdds ==
    /\ res = <<>>
    /\ DOMAIN arg = {"novig_prob"}
    /\ res' = <<compute_positive_ev_odds(arg.novig_prob)>>
    /\ UNCHANGED <<arg, pipeVars>>

SpecBreakEven == InitBreakEven /\ [][ComputePositiveEvOdds]_vars

\* the call was made on a probability strictly between 0 and 1
BreakEvenInside ==
    /\ res # <<>>
    /\ QLess(QInt(0), arg.novig_prob)
    /\ QLess(arg.novig_prob, QInt(1))

\* C11: for every fair probability p in (0, 1), compute_positive_ev_odds(p) is a
\* valid American price (an integer with |price| >= 100) whose expected return at
\* p is not negative, every valid price with a strictly smaller payout multiple
\* has a negative expected return at p, and p = 0.5 gives 100.
C11_MinimumPrice ==
    BreakEvenInside =>
        /\ res[1].status = "ok"
        /\ res[1].value[2] = 1
        /\ Abs(res[1].value[1]) >= 100
        /\ QLeq(QInt(0), compute_expected_return(res[1].value[1], arg.novig_prob))
        /\ \A q \in ValidPrices :
              QLess(compute_return_on_bet(q), compute_return_on_bet(res[1].value[1]))
                  => QLess(compute_expected_return(q, arg.novig_prob), QInt(0))
        /\ arg.novig_prob = Q(1, 2) => res[1].value = QInt(100)

\* C11 witness: the call returned a favourite's price below -100 for a probability
\* above one half.
C11_Witness ==
    /\ BreakEvenInside
    /\ QLess(Q(1, 2), arg.novig_prob)
    /\ res[1].status = "ok"
    /\ res[1].value[1] < -100

\* C12: compute_positive_ev_odds never raises on a probability in [0, 1]: it
\* returns an integer price or nan, and nan exactly when the probability is 0.
C12_NeverRaises ==
    (res # <<>> /\ DOMAIN arg = {"novig_prob"}) =>
        /\ res[1].status = "ok"
        /\ IsNaN(res[1].value) <=> arg.novig_prob = QInt(0)

-----------------------------------------------------------------------------
(* helper.py: the stake split of an arbitrage and its profit, on pairs of   *)
(* valid American prices                                                    *)

\* a split that gives each side the other side's share
compute_arbitrage_optimization_swapped(odd1, odd2) ==
    LET dec_odd1 == QAdd(QInt(1), compute_return_on_bet(odd1))
        dec_odd2 == QAdd(QInt(1), compute_return_on_bet(odd2))
        allocation_odds_1 == QDiv(QInt(1), QAdd(QDiv(dec_odd2, dec_odd1), QInt(1)))
    IN  <<allocation_odds_1, QSub(QInt(1), allocation_odds_1)>>

compute_arbitrage_optimization(odd1, odd2) ==
    LET dec_odd1 == QAdd(QInt(1), compute_return_on_bet(odd1))
        dec_odd2 == QAdd(QInt(1), compute_return_on_bet(odd2))
        allocation_odds_1 == QDiv(QInt(1), QAdd(QDiv(dec_odd1, dec_odd2), QInt(1)))
    IN  <<allocation_odds_1, QSub(QInt(1), allocation_odds_1)>>

compute_arbitrage_profit(odd1, odd1_allocation, odd2, odd2_allocation) ==
    LET return_odd1 == compute_return_on_bet(odd1)
        return_odd2 == compute_return_on_bet(odd2)
    IN  <<QSub(QMul(return_odd1, odd1_allocation), odd2_allocation),
          QSub(QMul(return_odd2, odd2_allocation), odd1_allocation)>>

ArbPrices == {-300, -150, -110, -100, 100, 110, 150, 300}

InitArbitrage ==
    /\ arg \in [odd1 : ArbPrices, odd2 : ArbPrices]
    /\ res = <<>>
    /\ InitInstance
    /\ snapshot = [e \in EventIds |-> NotListed(e)]

\* the split is computed, then the profit under that split
SplitAndProfit ==
    /\ DOMAIN arg = {"odd1", "odd2"}
    /\ Len(res) < 2
    /\ res' = IF res = <<>>
              THEN <<compute_arbitrage_optimization(arg.odd1, arg.odd2)>>
              ELSE Append(res, compute_arbitrage_profit(arg.odd1, res[1][1],
                                                        arg.odd2, res[1][2]))
    /\ UNCHANGED <<arg, pipeVars>>

SpecArbitrage == InitArbitrage /\ [][SplitAndProfit]_vars

\* C13: for every pair of valid American prices (a, b) the allocations of
\* compute_arbitrage_optimization(a, b) sum to 1, the two profits of
\* compute_arbitrage_profit under that allocation are equal, and the common
\* profit is strictly positive exactly when determin_arbitrage_opps(a, b).
C13_SplitEqualisesProfit ==
    (DOMAIN arg = {"odd1", "odd2"} /\ Len(res) = 2) =>
        /\ QAdd(res[1][1], res[1][2]) = QInt(1)
        /\ res[2][1] = res[2][2]
        /\ QLess(QInt(0), res[2][1])
              <=> determin_arbitrage_opps(QInt(arg.odd1), QInt(arg.odd2))

\* C13 witness: split and profit were computed for a favourite against an
\* underdog whose prices leave an arbitrage.
C13_Witness ==
    /\ DOMAIN arg = {"odd1", "odd2"}
    /\ Len(res) = 2
    /\ arg.odd1 < 0
    /\ arg.odd2 > 0
    /\ determin_arbitrage_opps(QInt(arg.odd1), QInt(arg.odd2))
    /\ QLess(QInt(0), res[2][1])

-----------------------------------------------------------------------------
(* Positive expected value and arbitrage in one table *)

\* C14: in the table get_all_positive_ev_arbitrage_opps builds, whenever no row
\* has ev_pct > 0 no row has arbitrage_ind true, so returning None never drops
\* an arbitrage row; this for every snapshot of valid quotes, outcomes quoted by
\* a bookmaker without their counterpart included.
C14_NoEvNoArbitrage ==
    ( /\ last_call.op = "get_all_positive_ev_arbitrage_opps"
      /\ last_call.status = "ok"
      /\ latest_ran_df.stage = "arb"
      /\ \A j \in latest_ran_df.rows : ~QLess(QInt(0), j.row.ev_pct) ) =>
        \A j \in latest_ran_df.rows : ~j.arbitrage_ind

-----------------------------------------------------------------------------
(* An outcome, its counterpart and their line *)

\* raw outcome o2 is the counterpart of raw outcome o1 of event e by the totals
\* rule (the other of Over/Under at the same number) or by the spread rule (the
\* other team at the negated number)
RawCounterpart(e, o1, o2) ==
    /\ o1.point # NoPoint
    /\ \/ /\ {o1.name, o2.name} = {"Over", "Under"}
          /\ o2.point = o1.point
       \/ /\ {o1.name, o2.name} = {HomeOf(e), AwayOf(e)}
          /\ o2.point = PyNeg(o1.point)

\* C15: an outcome and its counterpart fall in the same line: for every raw
\* outcome whose counterpart by the totals or spread rule is quoted by the same
\* bookmaker in the same market, both get the same line key in output_game_odds,
\* and the counterpart label output_odds_csv looks up for the outcome is the
\* label of the counterpart's row.
C15_CounterpartInSameLine ==
    \A e \in EventIds :
        (CsvDone(e) /\ OwnContext(e)) =>
            \A i \in 1..Len(snapshot[e].bookmakers) :
                \A k \in 1..Len(snapshot[e].bookmakers[i].markets) :
                    \A n1, n2 \in 1..Len(snapshot[e].bookmakers[i].markets[k].outcomes) :
                        RawCounterpart(e, snapshot[e].bookmakers[i].markets[k].outcomes[n1],
                                          snapshot[e].bookmakers[i].markets[k].outcomes[n2]) =>
                            /\ bet_spread_name(snapshot[e].bookmakers[i].markets[k].key,
                                               snapshot[e].bookmakers[i].markets[k].outcomes[n1])
                               = bet_spread_name(snapshot[e].bookmakers[i].markets[k].key,
                                                 snapshot[e].bookmakers[i].markets[k].outcomes[n2])
                            /\ \A r \in agg_dict_out :
                                  ( /\ r.sportbook = snapshot[e].bookmakers[i].key
                                    /\ r.event_type = market_name_for_dict(
                                           snapshot[e].bookmakers[i].markets[k].outcomes[n1]) ) =>
                                      /\ r.event_type_counterpart = market_name_for_dict(
                                             snapshot[e].bookmakers[i].markets[k].outcomes[n2])
                                      /\ HasUid(agg_dict_out, CounterUid(r))

-----------------------------------------------------------------------------
(* OddsAPI.output_historical_events_across_timestamps: the sweep.  Time is  *)
(* counted in hours from 00:00 of `date`; interval_min is a whole number of *)
(* hours.  Every fetch succeeds.                                            *)

\* largest interval between two timestamps of the sweep, in hours
MaxInterval == 3

\* timedelta(days = 1)
HoursPerDay == 24

\* next_day.replace(hour = 8, minute = 0, second = 0)
CutoffHour == 8

\* next_day_at_8am
next_day_at_8am == HoursPerDay + CutoffHour

\* the hours of the day a sweep starts at
StartHours == {0, 12, 23}

\* a condition that forgets the cutoff
QualifiesBeforeCommence(ran_time, commence_time, custoff_date) ==
    ran_time <= commence_time

\* lines 376-377: if ran_time <= commence_time and commence_time < custoff_date
Qualifies(ran_time, commence_time, custoff_date) ==
    ran_time <= commence_time /\ commence_time < custoff_date

\* get_historical_odds when the request succeeds: [self, ret]
get_historical_odds(self, e) ==
    [self |-> output_game_odds(self, snapshot[e]),
     ret  |-> Collection(GameOdds(snapshot[e]))]

\* the body of the loop of get_all_odds, historical_event = True and
\* get_event_prior_to_commence = True, on prev = [self, df_list, status]
HistoricalStep(prev, event_id, ran_time, custoff_date) ==
    IF prev.status # "ok" THEN prev
    ELSE IF ~Qualifies(ran_time, snapshot[event_id].commence_time, custoff_date) THEN prev
    ELSE AllOddsAfterFetch(prev, get_historical_odds(prev.self, event_id))

RECURSIVE HistoricalLoop(_, _, _, _, _)
HistoricalLoop(self, historical_matches, n, ran_time, custoff_date) ==
    IF n = 0 THEN [self |-> self, df_list |-> <<>>, status |-> "ok"]
    ELSE HistoricalStep(HistoricalLoop(self, historical_matches, n - 1, ran_time,
                                       custoff_date),
                        historical_matches[n], ran_time, custoff_date)

\* get_all_odds, historical_event = True: [self, status, ret]; listed are the
\* events get_historical_matches returns for the timestamp
get_all_odds_historical(self, listed, ran_time, custoff_date) ==
    AllOddsReturn(HistoricalLoop(self, SelectSeq(Events, LAMBDA e : e \in listed),
                                 Cardinality(listed), ran_time, custoff_date))

NoneDf == [stage |-> "None", rows |-> {}]

\* the sweep goes on from a get_all_odds call at timestamp t that ended as r
SweepGoesOn(r, t, files) ==
    /\ SetSelf(r.self)
    /\ latest_historical_ran_time' = t
    /\ datetime_var' = t
    /\ csv_files' = files
    /\ historcal_df' = IF r.status = "ok" /\ r.ret = "result" THEN r.self.result_df
                       ELSE NoneDf
    /\ sweep_pc' = IF r.status # "ok" THEN "raised"
                   ELSE IF r.ret = "result" THEN "loop" ELSE "done"
    /\ last_call' = Call("output_historical_events_across_timestamps", "",
                         IF r.status # "ok" THEN r.status ELSE "ok", "")
    /\ UNCHANGED <<arg, res, snapshot, odds>>

\* lines 432-451: the first get_all_odds, at date and hour_of_day
SweepStart ==
    /\ sweep_pc = "idle"
    /\ DOMAIN arg = {"hour_of_day", "interval_min"}
    /\ \E listed \in SUBSET EventIds :
          SweepGoesOn(get_all_odds_historical(Returned(Self), listed, arg.hour_of_day,
                                              next_day_at_8am),
                      arg.hour_of_day, csv_files)

\* lines 454-474: one turn of the while loop: the CSV of the table at hand is
\* written, the timestamp moves on and get_all_odds is called for it
SweepTurn ==
    /\ sweep_pc = "loop"
    /\ \E listed \in SUBSET EventIds :
          SweepGoesOn(get_all_odds_historical(Returned(Self), listed,
                                              datetime_var + arg.interval_min,
                                              next_day_at_8am),
                      datetime_var + arg.interval_min,
                      csv_files \cup {datetime_var})

SweepNext == SweepStart \/ SweepTurn

\* the events commence before or after the cutoff; evB may be served without
\* any bookmaker
SweepSnapshots ==
    {[e \in EventIds |->
        [Response(e, IF e = "evA" \/ quoted
                     THEN <<Bookmaker("bk1", <<TotalsMarket(e)>>)>> ELSE <<>>)
            EXCEPT !.commence_time = IF e = "evA" THEN ca ELSE cb]]
        : ca \in {6, 30}, cb \in {20, 40}, quoted \in BOOLEAN}

InitSweep ==
    /\ arg \in [hour_of_day : StartHours, interval_min : 1..MaxInterval]
    /\ res = <<>>
    /\ InitInstance
    /\ snapshot \in SweepSnapshots

\* the loop of one call runs on without being suspended
SpecSweep == InitSweep /\ [][SweepNext]_vars /\ WF_vars(SweepNext)

\* at timestamp t some event has ran_time <= commence_time < cutoff
QualifiedAt(t) ==
    \E e \in EventIds :
        /\ t <= snapshot[e].commence_time
        /\ snapshot[e].commence_time < HoursPerDay + CutoffHour

\* C16: with interval_min > 0 and every fetch succeeding, the sweep eventually
\* leaves its loop; the loop never runs at a timestamp that has reached the
\* cutoff (08:00 of the day after date); and a CSV is written only for
\* timestamps at which at least one event qualified.
C16_SweepTerminates ==
    /\ <>(sweep_pc \in {"done", "raised"})
    /\ [](sweep_pc = "loop" => datetime_var < HoursPerDay + CutoffHour)
    /\ [](\A t \in csv_files : QualifiedAt(t))

\* C16 witness: the sweep wrote the CSVs of several timestamps and then ended on
\* a get_all_odds that returned None.
C16_Witness ==
    /\ sweep_pc = "done"
    /\ Cardinality(csv_files) >= 2
    /\ historcal_df = NoneDf

=============================================================================
